---- MODULE Spec2Model ----
(***************************************************************************)
(* Model of src/src/main.rs: a libp2p node with the ping behaviour.        *)
(*                                                                         *)
(* main() builds a swarm, starts listening, optionally dials the peer      *)
(* given as the first command-line argument, and then loops forever over   *)
(* the swarm's events, printing NewListenAddr and Behaviour events and     *)
(* ignoring every other event.                                             *)
(*                                                                         *)
(* The swarm (transport, ping behaviour, connection pool) is a library     *)
(* outside this program.  Every call into it is modelled by the outcomes   *)
(* its result type allows (Ok or Err for each `?`), and the event stream   *)
(* by a nondeterministic choice among the SwarmEvent kinds.  The only      *)
(* assumption made about the stream is that the outcome of an outgoing     *)
(* dial (OutgoingConnectionError, or ConnectionEstablished as dialer) is   *)
(* delivered only while the dial issued on line 58 is outstanding; the     *)
(* stream is otherwise unconstrained.                                      *)
(***************************************************************************)
EXTENDS Naturals, Sequences

VARIABLES
    pc,           \* position of main(): a startup step, "loop" or "exited"
    arg,          \* std::env::args().nth(1): a sequence of segments, or NoArg
    exitCode,     \* the process exit code, meaningful when pc = "exited"
    exitCause,    \* which `?` returned the error that ended main()
    dialPending,  \* swarm.dial(remote) was accepted and has no outcome yet
    stdout,       \* the lines printed so far
    delivered,    \* the events swarm.select_next_some() has yielded so far
    enteredLoop   \* the `loop` on line 63 has been entered

vars == <<pc, arg, exitCode, exitCause, dialPending, stdout, delivered, enteredLoop>>

\* Number of events the loop handles before the model stops exploring.
MaxEvents == 3

\* Exit code of a Rust main() that returns Err.
ExitFailure == 1

NoArg == <<>>
NoCause == "none"

Peers == {"p1", "p2"}
ListenAddrs == {"/ip4/127.0.0.1/tcp/40001", "/ip4/192.168.1.5/tcp/40001"}

\* Multiaddr protocols of the example address on line 24, each with one value.
Protocols == {"ip4", "tcp", "p2p"}

ProtocolValues(p) ==
    CASE p = "ip4" -> {"127.0.0.1", "10.0.0.2"}
      [] p = "tcp" -> {"4001"}
      [] p = "p2p" -> Peers
      [] OTHER -> {}

\* The first command-line arguments explored, as the segments between "/".
ArgChoices ==
    { <<"ip4", "127.0.0.1", "tcp", "4001">>,
      <<"ip4", "10.0.0.2", "tcp", "4001", "p2p", "p1">>,
      <<"ip4", "127.0.0.1", "tcp">>,
      <<"http", "example.org">> }

\* addr.parse::<Multiaddr>(): Ok exactly when the segments are
\* protocol/value pairs of known protocols.
RECURSIVE ParseMultiaddr(_)
ParseMultiaddr(segs) ==
    IF segs = <<>> THEN TRUE
    ELSE IF Len(segs) < 2 THEN FALSE
    ELSE /\ segs[1] \in Protocols
         /\ segs[2] \in ProtocolValues(segs[1])
         /\ ParseMultiaddr(SubSeq(segs, 3, Len(segs)))

\* Failures a ping::Event or an OutgoingConnectionError can carry.
PingResults == {"Pong", "Timeout", "Failure"}
DialErrors == {"Unreachable", "HandshakeFailed", "Timeout"}
Directions == {"inbound", "outbound"}

\* The SwarmEvent variants with an arm of their own on lines 65 and 66.
NewListenAddrEvents == { [kind |-> "NewListenAddr", a |-> x, b |-> "-"] : x \in ListenAddrs }
BehaviourEvents == { [kind |-> "Behaviour", a |-> p, b |-> r] : p \in Peers, r \in PingResults }

\* The SwarmEvent variants that fall to the `_` arm on line 67.
OtherEvents ==
    { [kind |-> "ConnectionEstablished", a |-> p, b |-> d] : p \in Peers, d \in Directions }
    \cup { [kind |-> "ConnectionClosed", a |-> p, b |-> "-"] : p \in Peers }
    \cup { [kind |-> "OutgoingConnectionError", a |-> "-", b |-> e] : e \in DialErrors }
    \cup { [kind |-> "IncomingConnection", a |-> "-", b |-> "-"] }

\* An event that reports the outcome of the dial issued on line 58.
IsDialOutcome(ev) ==
    \/ ev.kind = "OutgoingConnectionError"
    \/ ev.kind = "ConnectionEstablished" /\ ev.b = "outbound"

\* The lines main() prints.
DialedLine(addr) == [text |-> "Dialed", what |-> addr]
ListeningLine(ev) == [text |-> "Listening on", what |-> ev.a]
DebugLine(ev) == [text |-> "Debug", what |-> <<ev.a, ev.b>>]

Init ==
    /\ pc = "with_tcp"
    /\ arg = NoArg
    /\ exitCode = 0
    /\ exitCause = NoCause
    /\ dialPending = FALSE
    /\ stdout = <<>>
    /\ delivered = <<>>
    /\ enteredLoop = FALSE

\* main() returns Err(cause) through a `?`: the process exits non-zero.
ExitWith(cause) ==
    /\ pc' = "exited"
    /\ exitCode' = ExitFailure
    /\ exitCause' = cause

\* Lines 41-47: SwarmBuilder ... .with_tcp(...)?
WithTcp ==
    /\ pc = "with_tcp"
    /\ \/ /\ pc' = "with_behaviour"
          /\ UNCHANGED <<exitCode, exitCause>>
       \/ ExitWith("TransportBuild")
    /\ UNCHANGED <<arg, dialPending, stdout, delivered, enteredLoop>>

\* Lines 48-50: .with_behaviour(...)? ... .build()
WithBehaviour ==
    /\ pc = "with_behaviour"
    /\ \/ /\ pc' = "listen_on"
          /\ UNCHANGED <<exitCode, exitCause>>
       \/ ExitWith("BehaviourBuild")
    /\ UNCHANGED <<arg, dialPending, stdout, delivered, enteredLoop>>

\* Line 53: swarm.listen_on(...)?
ListenOn ==
    /\ pc = "listen_on"
    /\ \/ /\ pc' = "args"
          /\ UNCHANGED <<exitCode, exitCause>>
       \/ ExitWith("BindError")
    /\ UNCHANGED <<arg, dialPending, stdout, delivered, enteredLoop>>

\* Line 56: if let Some(addr) = std::env::args().nth(1); without an argument
\* the loop on line 63 is entered.
ReadArgs ==
    /\ pc = "args"
    /\ \/ /\ arg' = NoArg
          /\ pc' = "loop"
          /\ enteredLoop' = TRUE
       \/ /\ arg' \in ArgChoices
          /\ pc' = "parse"
          /\ UNCHANGED enteredLoop
    /\ UNCHANGED <<exitCode, exitCause, dialPending, stdout, delivered>>

\* Line 57: let remote: Multiaddr = addr.parse()?
ParseAddr ==
    /\ pc = "parse"
    /\ IF ParseMultiaddr(arg)
       THEN /\ pc' = "dial"
            /\ UNCHANGED <<exitCode, exitCause>>
       ELSE ExitWith("MalformedAddress")
    /\ UNCHANGED <<arg, dialPending, stdout, delivered, enteredLoop>>

\* Lines 58-59: swarm.dial(remote)?; println!("Dialed {addr}"); then the loop
\* on line 63 is entered.
Dial ==
    /\ pc = "dial"
    /\ \/ /\ pc' = "loop"
          /\ enteredLoop' = TRUE
          /\ dialPending' = TRUE
          /\ stdout' = Append(stdout, DialedLine(arg))
          /\ UNCHANGED <<exitCode, exitCause>>
       \/ /\ ExitWith("DialError")
          /\ UNCHANGED <<enteredLoop, dialPending, stdout>>
    /\ UNCHANGED <<arg, delivered>>

\* Line 64: swarm.select_next_some().await yields ev.
Yields(ev) ==
    /\ pc = "loop"
    /\ Len(delivered) < MaxEvents
    /\ IsDialOutcome(ev) => dialPending
    /\ delivered' = Append(delivered, ev)
    /\ dialPending' = (dialPending /\ ~IsDialOutcome(ev))

\* Line 65: SwarmEvent::NewListenAddr { address, .. } => println!(...)
HandleNewListenAddr ==
    \E ev \in NewListenAddrEvents :
        /\ Yields(ev)
        /\ stdout' = Append(stdout, ListeningLine(ev))
        /\ UNCHANGED <<pc, arg, exitCode, exitCause, enteredLoop>>

\* A loop without the Behaviour arm: ping events fall to the `_` arm.
HandleBehaviour_Silent ==
    \E ev \in BehaviourEvents :
        /\ Yields(ev)
        /\ UNCHANGED <<pc, arg, exitCode, exitCause, stdout, enteredLoop>>

\* Line 66: SwarmEvent::Behaviour(event) => println!("{:?}", event)
HandleBehaviour ==
    \E ev \in BehaviourEvents :
        /\ Yields(ev)
        /\ stdout' = Append(stdout, DebugLine(ev))
        /\ UNCHANGED <<pc, arg, exitCode, exitCause, enteredLoop>>

\* A `_` arm that prints the event instead of ignoring it.
HandleOther_Reporting ==
    \E ev \in OtherEvents :
        /\ Yields(ev)
        /\ stdout' = Append(stdout, DebugLine(ev))
        /\ UNCHANGED <<pc, arg, exitCode, exitCause, enteredLoop>>

\* A `_` arm that returns a failed dial's error from main().
HandleOther_Exits ==
    \E ev \in OtherEvents :
        /\ Yields(ev)
        /\ IF ev.kind = "OutgoingConnectionError"
           THEN ExitWith("DialError")
           ELSE UNCHANGED <<pc, exitCode, exitCause>>
        /\ UNCHANGED <<arg, stdout, enteredLoop>>

\* Line 67: _ => {}
HandleOther ==
    \E ev \in OtherEvents :
        /\ Yields(ev)
        /\ UNCHANGED <<pc, arg, exitCode, exitCause, stdout, enteredLoop>>

Next ==
    \/ WithTcp
    \/ WithBehaviour
    \/ ListenOn
    \/ ReadArgs
    \/ ParseAddr
    \/ Dial
    \/ HandleNewListenAddr
    \/ HandleBehaviour
    \/ HandleOther

Spec == Init /\ [][Next]_vars

(***************************************************************************)
(* Properties                                                              *)
(***************************************************************************)

\* The initial dial was issued (lines 58-59 ran to the end).
Dialed == enteredLoop /\ arg # NoArg

StartupLines == IF Dialed THEN <<DialedLine(arg)>> ELSE <<>>

\* The lines printed by the loop, after the line printed at startup.
LoopLines == SubSeq(stdout, Len(StartupLines) + 1, Len(stdout))

\* The lines a sequence of events is expected to print: one per
\* NewListenAddr or Behaviour event, in order, none for any other event.
RECURSIVE Printed(_)
Printed(evs) ==
    IF evs = <<>> THEN <<>>
    ELSE LET h == Head(evs)
             rest == Printed(Tail(evs))
         IN  IF h.kind = "NewListenAddr" THEN <<ListeningLine(h)>> \o rest
             ELSE IF h.kind = "Behaviour" THEN <<DebugLine(h)>> \o rest
             ELSE rest

\* The line that would report an event, whatever its kind.
Report(ev) == IF ev.kind = "NewListenAddr" THEN ListeningLine(ev) ELSE DebugLine(ev)

\* The step delivered an event of this kind.
Delivers(kind) ==
    /\ Len(delivered') = Len(delivered) + 1
    /\ delivered'[Len(delivered')].kind = kind

\* The errors main() can return: one per `?` on lines 47, 48, 53, 57 and 58.
StartupFailures ==
    {"TransportBuild", "BehaviourBuild", "BindError", "MalformedAddress", "DialError"}

\* C3 (as stated): every event the swarm yields (listen address, connection
\* established or closed, Pong, Timeout, Failure, ...) produces exactly one
\* line of output, in the order the events occurred.
C3_EveryEventEmitted ==
    /\ Len(LoopLines) = Len(delivered)
    /\ \A i \in 1..Len(delivered) : LoopLines[i] = Report(delivered[i])

\* C3 (amended): the output is, after the optional "Dialed" line, exactly one
\* line per NewListenAddr and per Behaviour (ping) event, in the order in
\* which the events were yielded; every other event, an established inbound
\* connection included, produces no output.
C3_OnlyListenAndBehaviourPrinted ==
    stdout = StartupLines \o Printed(delivered)

\* C3 witness: an inbound connection was established and ignored, and the
\* two ping events of that peer that followed were printed in order.
C3_Witness ==
    /\ Len(delivered) = 3
    /\ delivered[1] = [kind |-> "ConnectionEstablished", a |-> "p1", b |-> "inbound"]
    /\ delivered[2] = [kind |-> "Behaviour", a |-> "p1", b |-> "Pong"]
    /\ delivered[3] = [kind |-> "Behaviour", a |-> "p1", b |-> "Timeout"]
    /\ stdout = <<DebugLine(delivered[2]), DebugLine(delivered[3])>>

\* C4 (as stated): a dial failure is reported as exactly one emitted event
\* and the node continues to run its event loop.
C4_DialFailureEmitted ==
    [][Delivers("OutgoingConnectionError")
         => (Len(stdout') = Len(stdout) + 1 /\ pc' = "loop")]_vars

\* C4 (amended): a dial failure delivered by the swarm (Unreachable,
\* HandshakeFailed or Timeout) abandons the dial and leaves the node in its
\* event loop, but prints nothing; a dial rejected by swarm.dial itself ends
\* the process with a non-zero code before the loop is entered.
C4_DialFailureIgnored ==
    [][/\ Delivers("OutgoingConnectionError")
            => (stdout' = stdout /\ pc' = "loop" /\ ~dialPending')
       /\ (pc = "dial" /\ pc' = "exited")
            => (exitCode' # 0 /\ ~enteredLoop' /\ stdout' = stdout)]_vars

\* C4 witness: the dial failed and the loop handled a later event.
C4_Witness ==
    /\ pc = "loop"
    /\ Len(delivered) >= 2
    /\ delivered[1].kind = "OutgoingConnectionError"
    /\ delivered[2].kind = "NewListenAddr"
    /\ stdout = <<DialedLine(arg), ListeningLine(delivered[2])>>

\* C5 (as stated): once entered, the loop is never left; the process exits
\* by itself only during startup, non-zero, when binding the listen address
\* fails or the initial peer address is malformed, and then the loop was
\* never entered.
C5_ExitOnlyBindOrMalformed ==
    /\ enteredLoop => pc = "loop"
    /\ pc = "exited" =>
        /\ exitCode # 0
        /\ exitCause \in {"BindError", "MalformedAddress"}
        /\ ~enteredLoop

\* C5 (amended): once entered, the loop is never left, whatever events
\* arrive; the process exits by itself only during startup, non-zero, when
\* one of the fallible startup steps fails (building the transport or the
\* behaviour, binding the listen address, parsing the initial peer address,
\* issuing the initial dial), and then the loop was never entered.
C5_ExitOnlyAtStartup ==
    /\ enteredLoop => pc = "loop"
    /\ pc = "exited" =>
        /\ exitCode # 0
        /\ exitCause \in StartupFailures
        /\ ~enteredLoop
        /\ delivered = <<>>
    /\ pc # "exited" => exitCause = NoCause

\* C5 witness: the loop is still running after a connection was
\* established, its ping failed and it was closed.
C5_Witness ==
    /\ pc = "loop"
    /\ Len(delivered) = 3
    /\ delivered[1] = [kind |-> "ConnectionEstablished", a |-> "p2", b |-> "outbound"]
    /\ delivered[2] = [kind |-> "Behaviour", a |-> "p2", b |-> "Failure"]
    /\ delivered[3] = [kind |-> "ConnectionClosed", a |-> "p2", b |-> "-"]

====
